---- MODULE Spec2Model ----
(***************************************************************************)
(* Model of the EAFA backend: the inference module (outputs.py: the        *)
(* module globals MODEL / DEVICE / TRANSFORM, load_model and predict) and  *)
(* the training script (cnn.py: SimpleDataset, Model.setup_data,           *)
(* Model.train and main).                                                  *)
(*                                                                         *)
(* Inference is modelled per request thread (app.py runs Flask's threaded  *)
(* development server), one step per access to a module global, so that    *)
(* every interleaving the interpreter allows between two threads is a      *)
(* behaviour of Spec.  SpecSeq is the same program with a single caller.   *)
(* Training is a separate process (SpecTrain); SpecSplit applies           *)
(* setup_data alone to dataset sizes up to MaxSplitN.                      *)
(***************************************************************************)
EXTENDS Integers, Sequences, FiniteSets, TLC

\* ------------------------------------------------------------------ bounds
NumThreads == 2
MaxCalls == 2
MaxClasses == 4
MaxScore == 1
ResnetOut == 5
MaxPerClass == 2
MaxEpochs == 3
MaxSplitN == 100
FullPermN == 3
LimbBits == 13

\* ------------------------------------------------------- program constants
HeadOut == 3
NumClasses == 3
MantissaBits == 53
MainEpochs == 12

VARIABLES
    caller,        \* who calls predict: the Flask handler of app.py, or a direct caller
    quota,         \* per thread: how many predict calls it will make
    ckpt,          \* what best_model.pth holds when an inference process reads it
    MODEL,         \* outputs.MODEL: 0 (None) or the id of a model object
    DEVICE,        \* outputs.DEVICE
    TRANSFORM,     \* outputs.TRANSFORM
    heap,          \* the model objects built by models.resnet18(), by id
    loadLog,       \* one entry per torch.load call: the ordinal of the predict call making it
    started,       \* number of predict calls started so far
    pc,            \* per thread: the line it is about to execute
    callNo,        \* per thread: predict calls completed
    callId,        \* per thread: ordinal of its current (or last) predict call
    image_input,   \* per thread: predict's image_input
    classes,       \* per thread: predict's classes
    target,        \* per thread: the object load_state_dict was bound to
    result,        \* per thread: what the last predict call returned or raised
    fwd,           \* per thread: the state of the model object its forward pass ran on
    tpc,           \* training process: position
    entry,         \* training process: started through main() or by direct construction
    dataDir,       \* per class: number of image files in data/<class>/
    images,        \* SimpleDataset.images (as sample indices)
    train_set,     \* indices of the training subset
    val_set,       \* indices of the validation subset
    train_size,    \* setup_data's train_size
    test_size,     \* setup_data's test_size
    epochs,        \* Model.train's epochs argument
    epoch,         \* loop variable i (epochs completed)
    train_total,   \* per-epoch accumulators
    val_total,
    train_correct,
    val_correct,
    best_acc,      \* <<numerator, denominator>>
    valHist,       \* validation accuracy of every finished epoch
    saveLog,       \* epochs at whose end torch.save ran
    ckptFile,      \* best_model.pth as the training run leaves it
    outcome        \* how the training run ended

infVars == <<caller, quota, ckpt, MODEL, DEVICE, TRANSFORM, heap, loadLog, started, pc, callNo,
             callId, image_input, classes, target, result, fwd>>
trainVars == <<tpc, entry, dataDir, images, train_set, val_set, train_size, test_size,
               epochs, epoch, train_total, val_total, train_correct, val_correct, best_acc,
               valHist,
               saveLog, ckptFile, outcome>>
vars == <<infVars, trainVars>>

\* ------------------------------------------------------------- inference
None == 0
Threads == 1..NumThreads

\* best_model.pth: a state dict saved from a bare nn.Linear head, from the
\* Sequential(Dropout, Linear) head (what cnn.py saves), one fitting neither,
\* no file at all (torch.load raises FileNotFoundError), or a file torch.load
\* cannot read and reports as a RuntimeError.
CkptKinds == {"bare", "wrapped", "neither", "missing", "corrupt"}

\* image_input: a path / PIL image / BytesIO that decodes, one that does not,
\* and a value of another type.
GoodImages == {"path_ok", "pil_ok", "bytes_ok"}
BadImages == {"path_bad", "pil_bad", "bytes_bad", "other_type"}
ImageInputs == GoodImages \cup BadImages

Label(i) == <<"label", i>>
ClassList(k) == [i \in 1..k |-> Label(i)]

Unalloc == [fc |-> "unalloc", loaded |-> FALSE, training |-> FALSE]
NoResult == [kind |-> "none", error |-> "", prediction |-> <<>>,
             confidence |-> <<0, 1>>, all_probabilities |-> <<>>]
NoFwd == [ran |-> FALSE, loaded |-> FALSE, training |-> FALSE, fc |-> "unalloc"]

ErrorResult(msg) ==
    [kind |-> "error", error |-> msg, prediction |-> <<>>,
     confidence |-> <<0, 1>>, all_probabilities |-> <<>>]

Raised(exc) ==
    [kind |-> "raised", error |-> exc, prediction |-> <<>>,
     confidence |-> <<0, 1>>, all_probabilities |-> <<>>]

\* app.py hands predict a decoded PIL image (whose pixel data may still fail
\* to load) and its fixed three labels; a direct caller may pass anything.
InputsOf(who) ==
    IF who = "app"
    THEN [images |-> {"pil_ok", "pil_bad"}, lengths |-> {NumClasses}]
    ELSE [images |-> ImageInputs, lengths |-> 1..MaxClasses]

InitInference ==
    /\ ckpt \in CkptKinds
    /\ MODEL = None
    /\ DEVICE = "None"
    /\ TRANSFORM = "None"
    /\ heap = [o \in Threads |-> Unalloc]
    /\ loadLog = <<>>
    /\ started = 0
    /\ pc = [t \in Threads |-> "idle"]
    /\ callNo = [t \in Threads |-> 0]
    /\ callId = [t \in Threads |-> 0]
    /\ image_input = [t \in Threads |-> "path_ok"]
    /\ classes = [t \in Threads |-> <<>>]
    /\ target = [t \in Threads |-> None]
    /\ result = [t \in Threads |-> NoResult]
    /\ fwd = [t \in Threads |-> NoFwd]

\* The guard of outputs.py lines 16 and 59.
WrongGuard == TRANSFORM = "None"
NotYetLoaded == MODEL = None

\* ---- numeric helpers of the forward pass
RECURSIVE Pow2(_)
Pow2(k) == IF k = 0 THEN 1 ELSE 2 * Pow2(k - 1)

RECURSIVE SumWeights(_, _)
SumWeights(s, k) == IF k = 0 THEN 0 ELSE Pow2(s[k]) + SumWeights(s, k - 1)

\* torch.softmax(outputs, dim=1): every entry is weight/sum, kept as the pair
\* <<weight, sum>>; the weight is the exponential of the score (base 2 here,
\* which keeps the order and the normalisation of base e).
Softmax(s) == [i \in DOMAIN s |-> <<Pow2(s[i]), SumWeights(s, Len(s))>>]

\* torch.max(outputs, 1): the index of the first maximal score (1-based here).
ArgMaxFirst(s) ==
    CHOOSE i \in DOMAIN s :
        /\ \A j \in DOMAIN s : s[j] <= s[i]
        /\ \A j \in DOMAIN s : j < i => s[j] < s[i]

Min(a, b) == IF a <= b THEN a ELSE b

\* Number of scores the model's fc produces: the stock resnet18 head until
\* load_model replaces it, then 3.
FcOut(fc) == IF fc = "orig" THEN ResnetOut ELSE HeadOut

\* zip(classes, probabilities[0]) stops at the shorter of the two.
ZipProbs(cls, probs) ==
    [i \in 1..Min(Len(cls), Len(probs)) |-> <<cls[i], probs[i]>>]

\* outputs.py lines 77-92 for the score vector `outputs`.
PredictionOf(cls, outputs) ==
    LET probabilities == Softmax(outputs)
        predicted == ArgMaxFirst(outputs)
    IN  IF predicted > Len(cls)
        THEN ErrorResult("list index out of range")
        ELSE [kind |-> "success", error |-> "",
              prediction |-> cls[predicted],
              confidence |-> probabilities[predicted],
              all_probabilities |-> ZipProbs(cls, probabilities)]

\* load_state_dict (strict): succeeds when the head of the object is the head
\* the state dict was saved from.
Matches(fc, kind) ==
    \/ fc = "bare" /\ kind = "bare"
    \/ fc = "wrapped" /\ kind = "wrapped"

\* ---- control flow helpers
Goto(t, l) == pc' = [pc EXCEPT ![t] = l]

\* The predict call of thread t ends: it returned res, or raised.
Finish(t, res) ==
    /\ result' = [result EXCEPT ![t] = res]
    /\ callNo' = [callNo EXCEPT ![t] = @ + 1]
    /\ Goto(t, "idle")

\* ---- predict and load_model, one action per step of a thread
Call(t) ==
    /\ pc[t] = "idle"
    /\ callNo[t] < quota[t]
    /\ \E img \in InputsOf(caller).images, k \in InputsOf(caller).lengths :
        /\ image_input' = [image_input EXCEPT ![t] = img]
        /\ classes' = [classes EXCEPT ![t] = ClassList(k)]
    /\ started' = started + 1
    /\ callId' = [callId EXCEPT ![t] = started + 1]
    /\ result' = [result EXCEPT ![t] = NoResult]
    /\ fwd' = [fwd EXCEPT ![t] = NoFwd]
    /\ Goto(t, "p59")
    /\ UNCHANGED <<caller, quota, ckpt, MODEL, DEVICE, TRANSFORM, heap, loadLog, callNo, target>>
    /\ UNCHANGED trainVars

\* predict, line 59: if MODEL is None: load_model()
P59(t) ==
    /\ pc[t] = "p59"
    /\ Goto(t, IF NotYetLoaded THEN "l16" ELSE "p64")
    /\ UNCHANGED <<caller, quota, ckpt, MODEL, DEVICE, TRANSFORM, heap, loadLog, started, callNo,
                   callId, image_input, classes, target, result, fwd>>
    /\ UNCHANGED trainVars

\* load_model, lines 16-17: if MODEL is not None: return
L16(t) ==
    /\ pc[t] = "l16"
    /\ Goto(t, IF NotYetLoaded THEN "l19" ELSE "p64")
    /\ UNCHANGED <<caller, quota, ckpt, MODEL, DEVICE, TRANSFORM, heap, loadLog, started, callNo,
                   callId, image_input, classes, target, result, fwd>>
    /\ UNCHANGED trainVars

\* line 19: DEVICE = torch.device(...)
L19(t) ==
    /\ pc[t] = "l19"
    /\ DEVICE' = "device"
    /\ Goto(t, "l21")
    /\ UNCHANGED <<caller, quota, ckpt, MODEL, TRANSFORM, heap, loadLog, started, callNo,
                   callId, image_input, classes, target, result, fwd>>
    /\ UNCHANGED trainVars

\* line 21: MODEL = models.resnet18(weights=None): a fresh object, stock head,
\* random weights, in training mode.
L21(t) ==
    /\ pc[t] = "l21"
    /\ heap' = [heap EXCEPT ![t] = [fc |-> "orig", loaded |-> FALSE, training |-> TRUE]]
    /\ MODEL' = t
    /\ Goto(t, "l24a")
    /\ UNCHANGED <<caller, quota, ckpt, DEVICE, TRANSFORM, loadLog, started, callNo,
                   callId, image_input, classes, target, result, fwd>>
    /\ UNCHANGED trainVars

\* line 24, right-hand side: nn.Linear(MODEL.fc.in_features, 3).  A Sequential
\* has no in_features: AttributeError, which `except RuntimeError` lets through.
L24a(t) ==
    /\ pc[t] = "l24a"
    /\ IF heap[MODEL].fc = "wrapped"
       THEN /\ Finish(t, Raised("AttributeError"))
            /\ UNCHANGED <<heap>>
       ELSE /\ Goto(t, "l24b")
            /\ UNCHANGED <<heap, result, callNo>>
    /\ UNCHANGED <<caller, quota, ckpt, MODEL, DEVICE, TRANSFORM, loadLog, started,
                   callId, image_input, classes, target, fwd>>
    /\ UNCHANGED trainVars

\* line 24, the store: MODEL.fc = <new Linear> (fresh random head weights).
L24b(t) ==
    /\ pc[t] = "l24b"
    /\ heap' = [heap EXCEPT ![MODEL].fc = "bare", ![MODEL].loaded = FALSE]
    /\ Goto(t, "l25a")
    /\ UNCHANGED <<caller, quota, ckpt, MODEL, DEVICE, TRANSFORM, loadLog, started, callNo,
                   callId, image_input, classes, target, result, fwd>>
    /\ UNCHANGED trainVars

\* line 25, up to the return of torch.load: MODEL.load_state_dict is bound to
\* the current MODEL object first, then the file is read.
L25a(t) ==
    /\ pc[t] = "l25a"
    /\ target' = [target EXCEPT ![t] = MODEL]
    /\ loadLog' = Append(loadLog, callId[t])
    /\ CASE ckpt = "missing" -> Finish(t, Raised("FileNotFoundError"))
         [] ckpt = "corrupt" -> Goto(t, "l27a") /\ UNCHANGED <<result, callNo>>
         [] OTHER -> Goto(t, "l25b") /\ UNCHANGED <<result, callNo>>
    /\ UNCHANGED <<caller, quota, ckpt, MODEL, DEVICE, TRANSFORM, heap, started,
                   callId, image_input, classes, fwd>>
    /\ UNCHANGED trainVars

\* line 25, load_state_dict on the bound object; a mismatch raises RuntimeError,
\* caught on line 26.
L25b(t) ==
    /\ pc[t] = "l25b"
    /\ IF Matches(heap[target[t]].fc, ckpt)
       THEN /\ heap' = [heap EXCEPT ![target[t]].loaded = TRUE]
            /\ Goto(t, "l33")
       ELSE /\ Goto(t, "l27a")
            /\ UNCHANGED heap
    /\ UNCHANGED <<caller, quota, ckpt, MODEL, DEVICE, TRANSFORM, loadLog, started, callNo,
                   callId, image_input, classes, target, result, fwd>>
    /\ UNCHANGED trainVars

\* lines 27-30, right-hand side: nn.Linear(MODEL.fc.in_features, 3) in the handler.
L27a(t) ==
    /\ pc[t] = "l27a"
    /\ IF heap[MODEL].fc = "wrapped"
       THEN /\ Finish(t, Raised("AttributeError"))
            /\ UNCHANGED <<heap>>
       ELSE /\ Goto(t, "l27b")
            /\ UNCHANGED <<heap, result, callNo>>
    /\ UNCHANGED <<caller, quota, ckpt, MODEL, DEVICE, TRANSFORM, loadLog, started,
                   callId, image_input, classes, target, fwd>>
    /\ UNCHANGED trainVars

\* lines 27-30, the store: MODEL.fc = nn.Sequential(Dropout, Linear).
L27b(t) ==
    /\ pc[t] = "l27b"
    /\ heap' = [heap EXCEPT ![MODEL].fc = "wrapped", ![MODEL].loaded = FALSE]
    /\ Goto(t, "l31a")
    /\ UNCHANGED <<caller, quota, ckpt, MODEL, DEVICE, TRANSFORM, loadLog, started, callNo,
                   callId, image_input, classes, target, result, fwd>>
    /\ UNCHANGED trainVars

\* line 31, up to the return of torch.load (second read of the file); nothing
\* catches what is raised here.
L31a(t) ==
    /\ pc[t] = "l31a"
    /\ target' = [target EXCEPT ![t] = MODEL]
    /\ loadLog' = Append(loadLog, callId[t])
    /\ CASE ckpt = "missing" -> Finish(t, Raised("FileNotFoundError"))
         [] ckpt = "corrupt" -> Finish(t, Raised("RuntimeError"))
         [] OTHER -> Goto(t, "l31b") /\ UNCHANGED <<result, callNo>>
    /\ UNCHANGED <<caller, quota, ckpt, MODEL, DEVICE, TRANSFORM, heap, started,
                   callId, image_input, classes, fwd>>
    /\ UNCHANGED trainVars

\* line 31, load_state_dict on the bound object.
L31b(t) ==
    /\ pc[t] = "l31b"
    /\ IF Matches(heap[target[t]].fc, ckpt)
       THEN /\ heap' = [heap EXCEPT ![target[t]].loaded = TRUE]
            /\ Goto(t, "l33")
            /\ UNCHANGED <<result, callNo>>
       ELSE /\ Finish(t, Raised("RuntimeError"))
            /\ UNCHANGED heap
    /\ UNCHANGED <<caller, quota, ckpt, MODEL, DEVICE, TRANSFORM, loadLog, started,
                   callId, image_input, classes, target, fwd>>
    /\ UNCHANGED trainVars

\* lines 33-34: MODEL.to(DEVICE); MODEL.eval()
L33(t) ==
    /\ pc[t] = "l33"
    /\ heap' = [heap EXCEPT ![MODEL].training = FALSE]
    /\ Goto(t, "l36")
    /\ UNCHANGED <<caller, quota, ckpt, MODEL, DEVICE, TRANSFORM, loadLog, started, callNo,
                   callId, image_input, classes, target, result, fwd>>
    /\ UNCHANGED trainVars

\* lines 36-42: TRANSFORM = transforms.Compose([...]); return to predict
L36(t) ==
    /\ pc[t] = "l36"
    /\ TRANSFORM' = "Compose"
    /\ Goto(t, "p64")
    /\ UNCHANGED <<caller, quota, ckpt, MODEL, DEVICE, heap, loadLog, started, callNo,
                   callId, image_input, classes, target, result, fwd>>
    /\ UNCHANGED trainVars

\* predict, lines 64-71 inside the try: decode by the type of image_input.
P64(t) ==
    /\ pc[t] = "p64"
    /\ CASE image_input[t] \in GoodImages ->
              Goto(t, "p73") /\ UNCHANGED <<result, callNo>>
         [] image_input[t] = "other_type" ->
              Finish(t, ErrorResult("Unsupported image input type"))
         [] OTHER ->
              Finish(t, ErrorResult("cannot identify image file"))
    /\ UNCHANGED <<caller, quota, ckpt, MODEL, DEVICE, TRANSFORM, heap, loadLog, started,
                   callId, image_input, classes, target, fwd>>
    /\ UNCHANGED trainVars

\* line 73: TRANSFORM(image).unsqueeze(0).to(DEVICE); calling None is a TypeError.
P73(t) ==
    /\ pc[t] = "p73"
    /\ IF TRANSFORM = "None"
       THEN Finish(t, ErrorResult("'NoneType' object is not callable"))
       ELSE Goto(t, "p76") /\ UNCHANGED <<result, callNo>>
    /\ UNCHANGED <<caller, quota, ckpt, MODEL, DEVICE, TRANSFORM, heap, loadLog, started,
                   callId, image_input, classes, target, fwd>>
    /\ UNCHANGED trainVars

\* lines 75-92: the forward pass on the current MODEL object and the result.
\* The scores depend on the image and the weights: any vector of the head's size.
P76(t) ==
    /\ pc[t] = "p76"
    /\ \E outputs \in [1..FcOut(heap[MODEL].fc) -> 0..MaxScore] :
        Finish(t, PredictionOf(classes[t], outputs))
    /\ fwd' = [fwd EXCEPT ![t] = [ran |-> TRUE, loaded |-> heap[MODEL].loaded,
                                  training |-> heap[MODEL].training,
                                  fc |-> heap[MODEL].fc]]
    /\ UNCHANGED <<caller, quota, ckpt, MODEL, DEVICE, TRANSFORM, heap, loadLog, started,
                   callId, image_input, classes, target>>
    /\ UNCHANGED trainVars

ThreadStep(t) ==
    \/ Call(t)
    \/ P59(t)
    \/ L16(t)
    \/ L19(t)
    \/ L21(t)
    \/ L24a(t)
    \/ L24b(t)
    \/ L25a(t)
    \/ L25b(t)
    \/ L27a(t)
    \/ L27b(t)
    \/ L31a(t)
    \/ L31b(t)
    \/ L33(t)
    \/ L36(t)
    \/ P64(t)
    \/ P73(t)
    \/ P76(t)

Next == \E t \in Threads : ThreadStep(t)


\* ------------------------------------------------------------- training
\* ---- binary64 arithmetic of `int(train_ratio * len(dataset))`
\* Numbers are little-endian bit sequences (index 1 is the least significant bit).

\* The 53-bit significand of the double nearest to 0.8, 0x1999999999999A;
\* the double is this integer times 2^-53.
Sig08 ==
    [i \in 1..MantissaBits |->
        IF i = 1 THEN 0
        ELSE IF i = 2 THEN 1
        ELSE IF i = 3 THEN 0
        ELSE IF i = 4 THEN 1
        ELSE IF i = MantissaBits THEN 1
        ELSE IF (i - 5) % 4 \in {0, 3} THEN 1 ELSE 0]

\* The multiplication works on limbs of LimbBits bits, so that every
\* intermediate value fits a machine integer.
LimbCount(b) == (Len(b) + LimbBits - 1) \div LimbBits

RECURSIVE LimbValue(_, _, _)
LimbValue(b, k, j) ==
    IF j = LimbBits \/ (k - 1) * LimbBits + j + 1 > Len(b) THEN 0
    ELSE b[(k - 1) * LimbBits + j + 1] + 2 * LimbValue(b, k, j + 1)

\* limbs(b) * n, exactly (schoolbook multiplication by the small integer n).
RECURSIVE MulLimbs(_, _, _, _)
MulLimbs(b, k, carry, n) ==
    IF k > LimbCount(b)
    THEN IF carry = 0 THEN <<>>
         ELSE <<carry % Pow2(LimbBits)>> \o MulLimbs(b, k, carry \div Pow2(LimbBits), n)
    ELSE LET v == carry + LimbValue(b, k, 0) * n
         IN  <<v % Pow2(LimbBits)>> \o MulLimbs(b, k + 1, v \div Pow2(LimbBits), n)

LimbsToBits(l) ==
    [i \in 1..(Len(l) * LimbBits) |->
        (l[((i - 1) \div LimbBits) + 1] \div Pow2((i - 1) % LimbBits)) % 2]

\* bits * n as a bit sequence.
MulBits(b, n) == LimbsToBits(MulLimbs(b, 1, 0, n))

\* Position of the highest set bit, 0 for zero.
BitLen(b) ==
    IF \A i \in DOMAIN b : b[i] = 0 THEN 0
    ELSE CHOOSE i \in DOMAIN b : b[i] = 1 /\ \A j \in DOMAIN b : j > i => b[j] = 0

\* b + 1.
IncBits(b) ==
    IF \A i \in DOMAIN b : b[i] = 1
    THEN [i \in 1..(Len(b) + 1) |-> IF i = Len(b) + 1 THEN 1 ELSE 0]
    ELSE LET k == CHOOSE i \in DOMAIN b : b[i] = 0 /\ \A j \in DOMAIN b : j < i => b[j] = 1
         IN  [i \in DOMAIN b |-> IF i < k THEN 0 ELSE IF i = k THEN 1 ELSE b[i]]

\* Round an exact product to 53 significant bits, ties to even (IEEE 754
\* round-to-nearest-even, the rounding of a binary64 multiplication).
RoundNearestEven(b) ==
    LET L == BitLen(b)
    IN  IF L <= MantissaBits THEN b
        ELSE LET d == L - MantissaBits
                 kept == SubSeq(b, d + 1, L)
                 guard == b[d]
                 sticky == \E i \in 1..(d - 1) : b[i] = 1
                 up == guard = 1 /\ (sticky \/ kept[1] = 1)
             IN  [i \in 1..d |-> 0] \o (IF up THEN IncBits(kept) ELSE kept)

RECURSIVE BitsToInt(_, _)
BitsToInt(b, i) == IF i = 0 THEN 0 ELSE b[i] * Pow2(i - 1) + BitsToInt(b, i - 1)

\* int(x) of the double b * 2^-53: truncation, the bits above the binary point.
TruncToInt(b) ==
    LET whole == SubSeq(b, MantissaBits + 1, Len(b))
    IN  BitsToInt(whole, BitLen(whole))

\* A variant that rounds to the nearest integer instead of truncating.
TrainSizeRounded(n) ==
    LET b == RoundNearestEven(MulBits(Sig08, n))
        half == IF Len(b) >= MantissaBits THEN b[MantissaBits] ELSE 0
    IN  TruncToInt(b) + half

\* cnn.py line 100: train_size = int(train_ratio * len(dataset))
TrainSize(n) == TruncToInt(RoundNearestEven(MulBits(Sig08, n)))

\* ---- the dataset and its split
RECURSIVE SumUpTo(_, _)
SumUpTo(f, k) == IF k = 0 THEN 0 ELSE f[k] + SumUpTo(f, k - 1)

\* SimpleDataset.__init__: one (class index, file) sample per image file, class
\* by class in the order of self.classes.
RECURSIVE IndexSamples(_, _)
IndexSamples(dir, c) ==
    IF c > Len(dir) THEN <<>>
    ELSE [j \in 1..dir[c] |-> <<c, j>>] \o IndexSamples(dir, c + 1)

Rotation(n, r) == [i \in 1..n |-> ((i - 1 + r) % n) + 1]
Reversed(p) == [i \in 1..Len(p) |-> p[Len(p) + 1 - i]]

\* The orders torch.randperm(n) may return: every permutation for small n, the
\* rotations and their reversals beyond.
PermChoices(n) ==
    IF n <= FullPermN
    THEN {p \in [1..n -> 1..n] : \A i, j \in 1..n : p[i] = p[j] => i = j}
    ELSE {Rotation(n, r) : r \in 0..(n - 1)} \cup {Reversed(Rotation(n, r)) : r \in 0..(n - 1)}

\* 100 * correct / total as the exact fraction <<numerator, denominator>>; for a
\* fixed total, distinct fractions are distinct doubles, so `>` on the doubles
\* is `>` on the fractions.
Accuracy(correct, total) == <<100 * correct, total>>
GreaterThan(a, b) == a[1] * b[2] > b[1] * a[2]

\* A variant of the comparison that also accepts a tie.
NotLessThan(a, b) == a[1] * b[2] >= b[1] * a[2]

\* cnn.py line 169: if val_acc > best_acc
Improves(val_acc, best) == GreaterThan(val_acc, best)

InitTrainCommon ==
    /\ tpc = "start"
    /\ images = <<>>
    /\ train_set = <<>>
    /\ val_set = <<>>
    /\ train_size = 0
    /\ test_size = 0
    /\ epoch = 0
    /\ train_total = 0
    /\ val_total = 0
    /\ train_correct = 0
    /\ val_correct = 0
    /\ best_acc = <<0, 1>>
    /\ valHist = <<>>
    /\ saveLog = <<>>
    /\ outcome = "running"

\* ckptFile: 0 is no file, -1 a file left by an earlier run, e >= 1 the model
\* state at the end of epoch e of this run.
InitTrain ==
    /\ InitTrainCommon
    /\ entry \in {"main", "direct"}
    /\ dataDir \in [1..NumClasses -> 0..MaxPerClass]
    /\ epochs \in IF entry = "main" THEN {Min(MainEpochs, MaxEpochs)} ELSE 0..MaxEpochs
    /\ ckptFile \in {0, -1}

\* main(), lines 212-226: count the image files; return when there are none.
MainStart ==
    /\ tpc = "start"
    /\ entry = "main"
    /\ IF SumUpTo(dataDir, NumClasses) = 0
       THEN tpc' = "ended" /\ outcome' = "returned_no_images"
       ELSE tpc' = "construct" /\ UNCHANGED outcome
    /\ UNCHANGED <<entry, dataDir, images, train_set, val_set, train_size, test_size,
                   epochs, epoch, train_total, val_total, train_correct, val_correct,
                   best_acc, valHist, saveLog, ckptFile>>
    /\ UNCHANGED infVars

\* Model.__init__ -> setup_data, lines 95-109.  Building the shuffling
\* DataLoader over an empty training subset either raises ValueError (the
\* sampler rejects zero samples) or is accepted, depending on the torch build.
SetupData ==
    /\ \/ tpc = "start" /\ entry = "direct"
       \/ tpc = "construct"
    /\ LET dataset == IndexSamples(dataDir, 1)
           n == Len(dataset)
           tr == TrainSize(n)
           te == n - tr
       IN  /\ images' = dataset
           /\ train_size' = tr
           /\ test_size' = te
           /\ \E perm \in PermChoices(n) :
                /\ train_set' = SubSeq(perm, 1, tr)
                /\ val_set' = SubSeq(perm, tr + 1, n)
           /\ \/ tpc' = "ready" /\ UNCHANGED outcome
              \/ tr = 0 /\ tpc' = "ended" /\ outcome' = "ValueError"
    /\ UNCHANGED <<entry, dataDir, epochs, epoch, train_total, val_total, train_correct,
                   val_correct, best_acc, valHist, saveLog, ckptFile>>
    /\ UNCHANGED infVars

\* Model.train, lines 114-117.
TrainStart ==
    /\ tpc = "ready"
    /\ best_acc' = <<0, 1>>
    /\ epoch' = 0
    /\ tpc' = "epoch_top"
    /\ UNCHANGED <<entry, dataDir, images, train_set, val_set, train_size, test_size,
                   epochs, train_total, val_total, train_correct, val_correct,
                   valHist, saveLog, ckptFile, outcome>>
    /\ UNCHANGED infVars

\* lines 119-146: reset the counters, then one pass over train_loader.  Which
\* samples the model gets right depends on the data: any count up to the total.
TrainPass ==
    /\ tpc = "epoch_top"
    /\ epoch < epochs
    /\ val_correct' = 0
    /\ val_total' = 0
    /\ train_total' = Len(train_set)
    /\ train_correct' \in 0..Len(train_set)
    /\ tpc' = "eval"
    /\ UNCHANGED <<entry, dataDir, images, train_set, val_set, train_size, test_size,
                   epochs, epoch, best_acc, valHist, saveLog, ckptFile, outcome>>
    /\ UNCHANGED infVars

\* lines 148-161: one pass over val_loader.
EvalPass ==
    /\ tpc = "eval"
    /\ val_total' = Len(val_set)
    /\ val_correct' \in 0..Len(val_set)
    /\ tpc' = "epoch_end"
    /\ UNCHANGED <<entry, dataDir, images, train_set, val_set, train_size, test_size,
                   epochs, epoch, train_total, train_correct, best_acc, valHist,
                   saveLog, ckptFile, outcome>>
    /\ UNCHANGED infVars

\* lines 163-173: the two accuracies (a zero total is a ZeroDivisionError), then
\* the best-checkpoint decision.
EndOfEpoch ==
    /\ tpc = "epoch_end"
    /\ IF train_total = 0 \/ val_total = 0
       THEN /\ tpc' = "ended"
            /\ outcome' = "ZeroDivisionError"
            /\ UNCHANGED <<epoch, best_acc, valHist, saveLog, ckptFile>>
       ELSE LET val_acc == Accuracy(val_correct, val_total)
            IN  /\ valHist' = Append(valHist, val_acc)
                /\ IF Improves(val_acc, best_acc)
                   THEN /\ best_acc' = val_acc
                        /\ ckptFile' = epoch + 1
                        /\ saveLog' = Append(saveLog, epoch + 1)
                   ELSE UNCHANGED <<best_acc, ckptFile, saveLog>>
                /\ epoch' = epoch + 1
                /\ tpc' = "epoch_top"
                /\ UNCHANGED outcome
    /\ UNCHANGED <<entry, dataDir, images, train_set, val_set, train_size, test_size,
                   epochs, train_total, val_total, train_correct, val_correct>>
    /\ UNCHANGED infVars

\* line 175: the loop is over; the best accuracy is reported.
TrainDone ==
    /\ tpc = "epoch_top"
    /\ epoch = epochs
    /\ tpc' = "ended"
    /\ outcome' = "done"
    /\ UNCHANGED <<entry, dataDir, images, train_set, val_set, train_size, test_size,
                   epochs, epoch, train_total, val_total, train_correct, val_correct,
                   best_acc, valHist, saveLog, ckptFile>>
    /\ UNCHANGED infVars

NextTrain ==
    \/ MainStart
    \/ SetupData
    \/ TrainStart
    \/ TrainPass
    \/ EvalPass
    \/ EndOfEpoch
    \/ TrainDone

\* The inference process is not running while a training run is modelled, and
\* the other way round.
InferenceIdle ==
    /\ InitInference
    /\ ckpt = "wrapped"
    /\ caller = "app"
    /\ quota = [t \in Threads |-> 0]

TrainingIdle ==
    /\ InitTrainCommon
    /\ entry = "direct"
    /\ dataDir = [c \in 1..NumClasses |-> 0]
    /\ epochs = 0
    /\ ckptFile = 0

\* setup_data alone, on datasets of 0..MaxSplitN samples.
InitSplit ==
    /\ InitTrainCommon
    /\ entry = "direct"
    /\ \E n \in 0..MaxSplitN : dataDir = [c \in 1..NumClasses |-> IF c = 1 THEN n ELSE 0]
    /\ epochs = 0
    /\ ckptFile = 0

\* The server process: every request thread of app.py calls predict.
Init ==
    /\ InitInference
    /\ caller = "app"
    /\ quota = [t \in Threads |-> MaxCalls]
    /\ TrainingIdle

\* A single caller: the predict calls of one thread follow one another.
InitSeq ==
    /\ InitInference
    /\ caller = "direct"
    /\ quota = [t \in Threads |-> IF t = 1 THEN MaxCalls ELSE 0]
    /\ TrainingIdle

Spec == Init /\ [][Next]_vars
SpecSeq == InitSeq /\ [][Next]_vars
\* The training process alone.
InitTrainRun ==
    /\ InitTrain
    /\ InferenceIdle

InitSplitRun ==
    /\ InitSplit
    /\ InferenceIdle

NextSplit == SetupData

SpecTrain == InitTrainRun /\ [][NextTrain]_vars
SpecSplit == InitSplitRun /\ [][NextSplit]_vars

\* ------------------------------------------------------------- properties
Range(f) == {f[i] : i \in DOMAIN f}

\* Thread t has a finished predict call.
Finished(t) == pc[t] = "idle" /\ callNo[t] >= 1

\* The structured failure value of predict: a message, no prediction,
\* confidence 0.0, an empty distribution.
StructuredError(r) ==
    /\ r.kind = "error"
    /\ r.error # ""
    /\ r.prediction = <<>>
    /\ r.confidence[1] = 0
    /\ r.all_probabilities = <<>>

\* Number of load_model bodies that ran (each builds one model object).
LoadRuns == Cardinality({o \in Threads : heap[o].fc # "unalloc"})

InFallback(t) == pc[t] \in {"l27a", "l27b", "l31a", "l31b"}

\* C1: N concurrent predict calls against a cold service load the checkpoint
\* exactly once, and every call returns a valid result computed with the fully
\* loaded model and transform.
C1_OneLoadAllValid ==
    ckpt \in {"bare", "wrapped"} =>
        /\ LoadRuns <= 1
        /\ \A t \in Threads :
            (Finished(t) /\ image_input[t] \in GoodImages) =>
                /\ result[t].kind = "success"
                /\ fwd[t].ran /\ fwd[t].loaded /\ ~fwd[t].training

\* C2 (as stated): over a sequential series of predict calls the checkpoint file
\* is read exactly once, during the first call, whichever head shape matches.
C2_ReadExactlyOnce ==
    /\ \A i \in DOMAIN loadLog : loadLog[i] = 1
    /\ Finished(1) => Len(loadLog) = 1

\* C2 (amended): every read of the checkpoint file happens during the first
\* call, one read when the bare head matches or the file is missing, two when the
\* fallback head is tried; later calls read nothing.
C2_ReadsOnlyInFirstCall ==
    /\ \A i \in DOMAIN loadLog : loadLog[i] = 1
    /\ Finished(1) => Len(loadLog) = (IF ckpt \in {"bare", "missing"} THEN 1 ELSE 2)

C2_Witness ==
    /\ ckpt = "wrapped"
    /\ callNo[1] = 2
    /\ pc[1] = "idle"
    /\ result[1].kind = "success"
    /\ loadLog = <<1, 1>>

\* C3: for an input that does not decode or has an unsupported type, predict
\* does not raise and returns the structured error value.
C3_BadInputStructuredError ==
    \A t \in Threads :
        (Finished(t) /\ image_input[t] \in BadImages) => StructuredError(result[t])

\* C4: when the checkpoint cannot be restored on a cold call, predict returns
\* the structured failure value and nothing is raised to the caller.
C4_LoadFailureStructured ==
    \A t \in Threads :
        /\ result[t].kind # "raised"
        /\ (Finished(t) /\ ckpt \notin {"bare", "wrapped"}) => StructuredError(result[t])

\* C5: the bare head is tried first and the wrapped head only after a
\* structural mismatch; a bare checkpoint ends with a bare head, a wrapped one
\* with a wrapped head, one matching neither never completes a load; no
\* prediction is ever computed with a model that is not fully loaded, and the
\* service is not left usable with such a model.
C5_FallbackLoad ==
    /\ \A t \in Threads : ckpt = "bare" => ~InFallback(t)
    /\ \A t \in Threads :
        (pc[t] \in {"l33", "l36"}) => heap[MODEL].loaded /\ Matches(heap[MODEL].fc, ckpt)
    /\ ckpt = "neither" => (TRANSFORM = "None" /\ \A t \in Threads : pc[t] \notin {"l33", "l36"})
    /\ \A t \in Threads : fwd[t].ran => fwd[t].loaded
    /\ (MODEL # None /\ TRANSFORM # "None" /\ \A t \in Threads : pc[t] = "idle")
            => heap[MODEL].loaded

\* C6: a successful predict returns one probability per label of L, keyed by
\* the labels in order; the prediction is a label of L and an arg-max of the
\* distribution, and the confidence is the distribution's value for it.
C6_DistributionOverAllLabels ==
    \A t \in Threads :
        result[t].kind = "success" =>
            LET r == result[t]
                L == classes[t]
            IN  /\ Len(r.all_probabilities) = Len(L)
                /\ \A i \in DOMAIN r.all_probabilities : r.all_probabilities[i][1] = L[i]
                /\ \E i \in DOMAIN r.all_probabilities :
                    /\ r.all_probabilities[i][1] = r.prediction
                    /\ r.all_probabilities[i][2] = r.confidence
                    /\ \A j \in DOMAIN r.all_probabilities :
                        ~GreaterThan(r.all_probabilities[j][2], r.all_probabilities[i][2])

\* Largest validation accuracy of the epochs 1..k (0 when k = 0).
RECURSIVE MaxAcc(_, _)
MaxAcc(h, k) ==
    IF k = 0 THEN <<0, 1>>
    ELSE IF GreaterThan(h[k], MaxAcc(h, k - 1)) THEN h[k] ELSE MaxAcc(h, k - 1)

\* Epoch e set a new strict record.
NewRecord(h, e) == GreaterThan(h[e], MaxAcc(h, e - 1))

RecordEpochs(h) == {e \in DOMAIN h : NewRecord(h, e)}

IsIncreasing(q) == \A i, j \in DOMAIN q : i < j => q[i] < q[j]

SameValue(a, b) == ~GreaterThan(a, b) /\ ~GreaterThan(b, a)

\* The first epoch whose validation accuracy equals the maximum.
FirstMaxEpoch(h) ==
    CHOOSE e \in DOMAIN h :
        /\ SameValue(h[e], MaxAcc(h, Len(h)))
        /\ \A j \in DOMAIN h : j < e => ~SameValue(h[j], MaxAcc(h, Len(h)))

C7_SaveRule ==
    /\ Range(saveLog) = RecordEpochs(valHist)
    /\ IsIncreasing(saveLog)
    /\ Len(saveLog) = Cardinality(RecordEpochs(valHist))
    /\ SameValue(best_acc, MaxAcc(valHist, Len(valHist)))
    /\ tpc \in {"epoch_top", "eval", "epoch_end"} => Len(valHist) = epoch

\* C7 (as stated): the checkpoint is written exactly at the epochs whose
\* validation accuracy strictly exceeds the best so far, the best record is the
\* maximum, and after the last epoch the file holds the model of the first
\* epoch that reached the maximum.
C7_BestCheckpoint ==
    /\ C7_SaveRule
    /\ (outcome = "done" /\ epochs >= 1) => ckptFile = FirstMaxEpoch(valHist)

\* C7 (amended): as stated when the maximum is above 0; when every epoch's
\* validation accuracy is 0 nothing is written and the file is left as it was.
C7_BestCheckpointWhenPositive ==
    /\ C7_SaveRule
    /\ (outcome = "done" /\ epochs >= 1) =>
        IF GreaterThan(MaxAcc(valHist, Len(valHist)), <<0, 1>>)
        THEN ckptFile = FirstMaxEpoch(valHist)
        ELSE ckptFile \in {0, -1} /\ saveLog = <<>>

C7_Witness ==
    /\ outcome = "done"
    /\ Len(valHist) = 3
    /\ GreaterThan(valHist[2], valHist[1])
    /\ SameValue(valHist[3], valHist[2])
    /\ saveLog = <<2>>
    /\ ckptFile = 2

\* C8: setup_data splits n samples into floor(0.8 n) training samples and the
\* remaining n - floor(0.8 n) validation samples (80 and 20 for n = 100); the
\* subsets are disjoint and together are the whole sample set.
C8_SplitSizesAndPartition ==
    tpc # "start" =>
        LET n == Len(images)
        IN  /\ n = SumUpTo(dataDir, NumClasses)
            /\ train_size = (4 * n) \div 5
            /\ test_size = n - train_size
            /\ Len(train_set) = train_size
            /\ Len(val_set) = test_size
            /\ Cardinality(Range(train_set)) = train_size
            /\ Cardinality(Range(val_set)) = test_size
            /\ Range(train_set) \cap Range(val_set) = {}
            /\ Range(train_set) \cup Range(val_set) = 1..n
            /\ (n = 100 => train_size = 80 /\ test_size = 20)

C8_Witness ==
    /\ tpc # "start"
    /\ Len(images) = 100
    /\ Len(train_set) = 80
    /\ Len(val_set) = 20
    /\ train_set[1] # 1

\* C9: with zero samples training fails with an explicit empty-dataset error
\* before any epoch runs, and no run reaches an accuracy computation whose
\* training or validation total is zero.
C9_EmptyDatasetRejected ==
    /\ (SumUpTo(dataDir, NumClasses) = 0 /\ tpc = "ended") => outcome = "EmptyDatasetError"
    /\ SumUpTo(dataDir, NumClasses) = 0 => tpc \notin {"ready", "epoch_top", "eval", "epoch_end"}
    /\ tpc = "epoch_end" => (train_total > 0 /\ val_total > 0)

\* C10: in every reachable state, MODEL not None implies that the checkpoint
\* weights are loaded and that DEVICE and TRANSFORM are set.
C10_ModelSetImpliesLoaded ==
    MODEL # None =>
        /\ heap[MODEL].loaded
        /\ DEVICE # "None"
        /\ TRANSFORM # "None"

====
